---- MODULE Spec2Model ----
(***************************************************************************)
(* Model of the product pricing pipeline: the Airflow DAG                  *)
(* (dags/product_pricing_dag.py), the transformer                          *)
(* (scripts/transform_data.py), the loader (scripts/load_data.py) and the  *)
(* exchange rate staging store (scripts/fetch_exchange_rate.py).           *)
(*                                                                         *)
(* Conventions                                                             *)
(*   - Python str     : a sequence of one-character strings                *)
(*   - Python None    : None == << >>, a value x that may be None : <<x>>  *)
(*   - money (float)  : an integer number of hundredths (pence / paise)    *)
(*   - exchange rate  : an integer number of hundredths (10550 = 105.50)   *)
(*   - sha256 digest  : the hashed string itself, i.e. the hash is taken   *)
(*                      to be collision free                               *)
(*                                                                         *)
(* A try of a task is one step.  Of Airflow the model has the task states, *)
(* the trigger rule, the retries and XCom; of time it has the day and the  *)
(* order of the calls, so neither retry_delay nor execution_timeout, and   *)
(* one DAG run at a time.                                                  *)
(*                                                                         *)
(* Spec          : a DAG run, on a new database or on one an earlier run   *)
(*                 has filled                                              *)
(* SpecLoad      : one call of a load function on its own                  *)
(* SpecTransform : one call of transform_products, or one try of the       *)
(*                 transform task, on its own                              *)
(* SpecRate      : calls of store_exchange_rate and                        *)
(*                 get_latest_exchange_rate on their own                   *)
(***************************************************************************)
EXTENDS Integers, Sequences, FiniteSets, TLC

\* ------------------------------------------------------------------------
\* Python values
\* ------------------------------------------------------------------------
None == << >>

Some(x) == << x >>

IsNone(o) == o = << >>

Val(o) == o[1]

\* truth value of an optional number: None and 0 are falsy  (`if not x`)
TruthyNum(o) == o # None /\ Val(o) # 0

\* truth value of a list or str: None and the empty one are falsy
TruthySeq(s) == s # << >>

\* ------------------------------------------------------------------------
\* Characters
\* ------------------------------------------------------------------------
LowerLetters ==
    << "a", "b", "c", "d", "e", "f", "g", "h", "i", "j", "k", "l", "m",
       "n", "o", "p", "q", "r", "s", "t", "u", "v", "w", "x", "y", "z" >>

UpperLetters ==
    << "A", "B", "C", "D", "E", "F", "G", "H", "I", "J", "K", "L", "M",
       "N", "O", "P", "Q", "R", "S", "T", "U", "V", "W", "X", "Y", "Z" >>

Digits == << "0", "1", "2", "3", "4", "5", "6", "7", "8", "9" >>

\* the characters the regular expression class \s matches
Whitespace == { " ", "\t", "\n" }

Range(s) == { s[i] : i \in DOMAIN s }

IndexOf(c, s) == CHOOSE i \in DOMAIN s : s[i] = c

LowerSet == Range(LowerLetters)

UpperSet == Range(UpperLetters)

DigitSet == Range(Digits)

IsLower(c) == c \in LowerSet

IsUpper(c) == c \in UpperSet

IsCased(c) == IsLower(c) \/ IsUpper(c)

\* str.lower() on one character
LowerChar(c) == IF IsUpper(c) THEN LowerLetters[IndexOf(c, UpperLetters)] ELSE c

\* str.upper() on one character
UpperChar(c) == IF IsLower(c) THEN UpperLetters[IndexOf(c, LowerLetters)] ELSE c

\* str.lower()
Lower(s) == [ i \in DOMAIN s |-> LowerChar(s[i]) ]

\* str.title(): a cased character is upper case after an uncased one (or at
\* the start) and lower case after a cased one
Title(s) ==
    [ i \in DOMAIN s |->
        IF i = 1 \/ ~IsCased(s[i - 1]) THEN UpperChar(s[i]) ELSE LowerChar(s[i]) ]

\* str.strip()
RECURSIVE LStrip(_)
LStrip(s) ==
    IF s # << >> /\ Head(s) \in Whitespace THEN LStrip(Tail(s)) ELSE s

RECURSIVE RStrip(_)
RStrip(s) ==
    IF s # << >> /\ s[Len(s)] \in Whitespace
    THEN RStrip(SubSeq(s, 1, Len(s) - 1))
    ELSE s

Strip(s) == RStrip(LStrip(s))

\* re.sub(r'\s+', ' ', text): every maximal run of whitespace becomes " "
RECURSIVE CollapseWs(_)
CollapseWs(s) ==
    IF s = << >> THEN << >>
    ELSE IF Head(s) \in Whitespace
         THEN << " " >> \o CollapseWs(LStrip(s))
         ELSE << Head(s) >> \o CollapseWs(Tail(s))

\* `sub in s` for strings
Contains(s, sub) ==
    \E i \in 1 .. (Len(s) - Len(sub) + 1) : SubSeq(s, i, i + Len(sub) - 1) = sub

\* int() of a string of digits
RECURSIVE ParseInt(_)
ParseInt(ds) ==
    IF ds = << >> THEN 0
    ELSE 10 * ParseInt(SubSeq(ds, 1, Len(ds) - 1)) + (IndexOf(ds[Len(ds)], Digits) - 1)

\* ------------------------------------------------------------------------
\* scripts/transform_data.py
\* ------------------------------------------------------------------------
clean_text(text) ==
    IF ~TruthySeq(text) THEN << >> ELSE Strip(CollapseWs(text))

Uncategorized ==
    << "U", "n", "c", "a", "t", "e", "g", "o", "r", "i", "z", "e", "d" >>

unknown == << "u", "n", "k", "n", "o", "w", "n" >>

normalize_category(category) ==
    IF ~TruthySeq(category) \/ Lower(category) = unknown
    THEN Uncategorized
    ELSE Title(clean_text(category))

available_paren == << "a", "v", "a", "i", "l", "a", "b", "l", "e", ")" >>

in_stock == << "i", "n", " ", "s", "t", "o", "c", "k" >>

out_of_stock == << "o", "u", "t", " ", "o", "f", " ", "s", "t", "o", "c", "k" >>

\* the last index of the longest run of characters of class C that starts
\* at index i of s (i - 1 when s[i] is not in C)
RECURSIVE RunEnd(_, _, _)
RunEnd(s, i, C) ==
    IF i <= Len(s) /\ s[i] \in C THEN RunEnd(s, i + 1, C) ELSE i - 1

\* the group (\d+) of a match of r'\((\d+)\s+available\)' that starts at
\* index i of s, None when there is no match there: "(" at i, then the
\* digits up to j, the whitespace up to k, and "available)"
QuantityMatch(s, i) ==
    LET j == RunEnd(s, i + 1, DigitSet)
        k == RunEnd(s, j + 1, Whitespace)
    IN  IF /\ s[i] = "("
           /\ j > i
           /\ k > j
           /\ k + Len(available_paren) <= Len(s)
           /\ SubSeq(s, k + 1, k + Len(available_paren)) = available_paren
        THEN Some(SubSeq(s, i + 1, j))
        ELSE None

\* re.search returns the leftmost match
FirstQuantity(s) ==
    LET starts == { i \in DOMAIN s : QuantityMatch(s, i) # None }
    IN  IF starts = {} THEN None
        ELSE Some(ParseInt(Val(QuantityMatch(s, CHOOSE i \in starts :
                                                   \A n \in starts : i <= n))))

parse_availability(availability) ==
    IF ~TruthySeq(availability)
    THEN [ status |-> "Unknown", quantity |-> None ]
    ELSE LET a == clean_text(availability)
             status == IF Contains(Lower(a), in_stock) THEN "In Stock"
                       ELSE IF Contains(Lower(a), out_of_stock) THEN "Out of Stock"
                       ELSE "Unknown"
         IN  [ status |-> status, quantity |-> FirstQuantity(a) ]

\* round(x / 10^2) to the nearest integer, ties to the even one (the
\* rounding of Python's round()); x may be negative
RoundHalfEven100(x) ==
    LET q == x \div 100       \* floor
        r == x % 100          \* 0 .. 99
    IN  IF r < 50 THEN q
        ELSE IF r > 50 THEN q + 1
        ELSE IF q % 2 = 0 THEN q ELSE q + 1

\* price in pence times rate in hundredths is in units of 10^-4; the result
\* is in paise
convert_price_to_inr(price_gbp, exchange_rate) ==
    IF price_gbp = 0 \/ ~TruthyNum(exchange_rate) THEN 0
    ELSE RoundHalfEven100(price_gbp * Val(exchange_rate))

TierCheapBelow == 2000

TierModerateBelow == 5000

\* mutant of derive_price_tier: <= for <
derive_price_tier_inclusive_upper(price_gbp) ==
    IF price_gbp <= TierCheapBelow THEN "cheap"
    ELSE IF price_gbp <= TierModerateBelow THEN "moderate"
    ELSE "expensive"

derive_price_tier(price_gbp) ==
    IF price_gbp < TierCheapBelow THEN "cheap"
    ELSE IF price_gbp < TierModerateBelow THEN "moderate"
    ELSE "expensive"

\* str() of a natural number
RECURSIVE NatStr(_)
NatStr(n) ==
    IF n < 10 THEN << Digits[n + 1] >>
    ELSE NatStr(n \div 10) \o << Digits[(n % 10) + 1] >>

\* str() of a float of at most two decimals: "51.77", "19.9", "20.0", "-5.0"
FloatStr(x) ==
    LET a    == IF x < 0 THEN -x ELSE x
        f    == a % 100
        frac == IF f % 10 = 0 THEN << Digits[(f \div 10) + 1] >>
                ELSE << Digits[(f \div 10) + 1], Digits[(f % 10) + 1] >>
    IN  (IF x < 0 THEN << "-" >> ELSE << >>) \o NatStr(a \div 100) \o << "." >> \o frac

\* mutant of generate_product_id: the price is not hashed
generate_product_id_without_price(title, category, price_gbp) ==
    title \o << "|" >> \o category

\* f"{title}|{category}|{price_gbp}", hashed
generate_product_id(title, category, price_gbp) ==
    title \o << "|" >> \o category \o << "|" >> \o FloatStr(price_gbp)

\* float(product.get('price_gbp', 0)): a raw price is a float, a missing
\* key, None (TypeError) or a text that is no number (ValueError); the
\* result is None when float() raises
PyFloat(p) ==
    CASE p.kind = "float"   -> Some(p.val)
      [] p.kind = "missing" -> Some(0)
      [] OTHER              -> None

\* the transformed dict, or None when the record raised
transform_product(product, exchange_rate) ==
    LET title    == clean_text(product.title)
        category == normalize_category(product.category)
        av       == parse_availability(product.availability)
        price    == PyFloat(product.price_gbp)
    IN  IF IsNone(price) THEN None
        ELSE Some([ product_id          |-> generate_product_id(title, category, Val(price)),
                    title               |-> title,
                    price_gbp           |-> Val(price),
                    price_inr           |-> convert_price_to_inr(Val(price), exchange_rate),
                    category            |-> category,
                    availability_status |-> av.status,
                    stock_quantity      |-> av.quantity,
                    price_tier          |-> derive_price_tier(Val(price)) ])

\* mutant of transform_products: a record that fails ends the batch
transform_products_abort(products, exchange_rate) ==
    IF \E i \in DOMAIN products : IsNone(transform_product(products[i], exchange_rate))
    THEN << >>
    ELSE [ i \in DOMAIN products |-> Val(transform_product(products[i], exchange_rate)) ]

RECURSIVE transform_products(_, _)
transform_products(products, exchange_rate) ==
    IF products = << >> THEN << >>
    ELSE LET t == transform_product(Head(products), exchange_rate)
         IN  (IF IsNone(t) THEN << >> ELSE << Val(t) >>)
               \o transform_products(Tail(products), exchange_rate)

\* ------------------------------------------------------------------------
\* PostgreSQL as the code uses it (psycopg2: one connection per call, one
\* implicit transaction per connection)
\* ------------------------------------------------------------------------
\* Where a database call goes wrong.  at: the step that raises
\* psycopg2.Error ("none": nothing does; "cursor": conn.cursor(), with the
\* connection made); lost: the connection is gone with
\* it, so that a later conn.rollback() raises as well; k: the row whose
\* statement raises, for the step "row" of the upsert loop.
NoFault == [ at |-> "none", lost |-> FALSE, k |-> 0 ]

Fault(at, lost, k) == [ at |-> at, lost |-> lost, k |-> k ]

\* mutant of TxAbort: every statement is committed as it is executed
TxAbort_autocommit(committed, working) == working

\* what a transaction leaves in a table when it ends without a commit:
\* conn.rollback(), or conn.close() / a lost connection with the
\* transaction still open
TxAbort(committed, working) == committed

\* what conn.commit() leaves in a table
TxCommit(committed, working) == working

\* mutant of Truncate: the rows stay
Truncate_keeping_rows(rows) == rows

\* TRUNCATE TABLE
Truncate(rows) == {}

\* the primary key of products
HasDuplicateKey(values) ==
    \E i, j \in DOMAIN values : i # j /\ values[i].product_id = values[j].product_id

\* mutant of UpsertRow: ON CONFLICT (product_id) DO NOTHING
UpsertRow_do_nothing(rows, p) ==
    IF \E r \in rows : r.product_id = p.product_id THEN rows ELSE rows \cup { p }

\* INSERT ... ON CONFLICT (product_id) DO UPDATE SET <every other column>
UpsertRow(rows, p) == { r \in rows : r.product_id # p.product_id } \cup { p }

RECURSIVE UpsertRows(_, _)
UpsertRows(rows, values) ==
    IF values = << >> THEN rows
    ELSE UpsertRows(UpsertRow(rows, Head(values)), Tail(values))

\* the handler of psycopg2.Error in the load functions: `if conn:
\* conn.rollback(); return False`, where rollback() on a lost connection
\* raises in its turn
RollbackAndReturn(fault) == IF fault.lost THEN "raise" ELSE "False"

\* ------------------------------------------------------------------------
\* scripts/load_data.py
\* ------------------------------------------------------------------------
\* What a call leaves of the connection it made when it ends:
\*   "none"         psycopg2.connect raised, there is none
\*   "closed"       conn.close() has run
\*   "unreferenced" conn.close() has not run and the call has returned:
\*                  nothing refers to the connection any more
\*   "held"         conn.close() has not run and an exception leaves the
\*                  call: its traceback refers to the frame and so to conn
\* The load functions close in a finally clause, `if cursor:
\* cursor.close()` first: with `cursor` unbound that raises
\* UnboundLocalError and `conn.close()` is not reached.
LoadConn(fault) ==
    CASE fault.at = "connect" -> "none"
      [] fault.at = "cursor"  -> "held"
      [] OTHER                -> "closed"

\* The connection once the call has ended.  An unreferenced connection is
\* closed (and its transaction aborted) when the interpreter finalizes the
\* object, which it may do at once or later; a held one is open.
ConnAfterCall(c) ==
    CASE c = "unreferenced" -> { "open", "finalized" }
      [] c = "held"         -> { "open" }
      [] OTHER              -> { c }

\* mutant of load_products_replace: the TRUNCATE is missing
load_products_replace_no_truncate(products_arg, table, fault) ==
    LET clash == \/ HasDuplicateKey(products_arg)
                 \/ \E r \in table : \E i \in DOMAIN products_arg :
                      r.product_id = products_arg[i].product_id
    IN  CASE fault.at \in { "connect", "cursor" } ->
               [ ret |-> "raise", table |-> table,
                 conn |-> LoadConn(fault) ]
          [] fault.at # "none"    ->
               [ ret |-> RollbackAndReturn(fault), table |-> table,
                 conn |-> LoadConn(fault) ]
          [] clash                ->
               [ ret |-> "False", table |-> table,
                 conn |-> LoadConn(fault) ]
          [] OTHER                ->
               [ ret |-> "True", table |-> table \cup Range(products_arg),
                 conn |-> LoadConn(fault) ]

\* mutant of load_products_replace: a commit after the TRUNCATE
load_products_replace_commit_after_truncate(products_arg, table, fault) ==
    LET w1 == Truncate(table)
    IN  CASE fault.at \in { "connect", "cursor" } ->
               [ ret |-> "raise", table |-> table, conn |-> LoadConn(fault) ]
          [] fault.at = "truncate" ->
               [ ret |-> RollbackAndReturn(fault), table |-> table,
                 conn |-> LoadConn(fault) ]
          [] fault.at \in { "insert", "commit" } \/ HasDuplicateKey(products_arg) ->
               [ ret   |-> RollbackAndReturn(IF fault.at = "none" THEN NoFault ELSE fault),
                 table |-> w1,
                 conn  |-> LoadConn(fault) ]
          [] OTHER ->
               [ ret |-> "True", table |-> w1 \cup Range(products_arg),
                 conn |-> LoadConn(fault) ]

\* ret: "True" / "False" as returned, "raise" when an exception leaves the
\* function; table: the products table after the call.  A row has the
\* columns the statement names; updated_at, which no record carries, is
\* not among them.
\* A failing psycopg2.connect leaves `conn` unbound, and the handler's
\* `if conn:` (and the finally's `if cursor:`) raises UnboundLocalError; a
\* failing conn.cursor() leaves `cursor` unbound, and after the handler's
\* rollback the finally's `if cursor:` raises it.
load_products_replace(products_arg, table, fault) ==
    LET w1   == Truncate(table)
        dup  == HasDuplicateKey(products_arg)
        w2   == w1 \cup Range(products_arg)
    IN  CASE fault.at \in { "connect", "cursor" } ->
               [ ret |-> "raise", table |-> table,
                 conn |-> LoadConn(fault) ]
          [] fault.at = "truncate" ->
               [ ret |-> RollbackAndReturn(fault), table |-> TxAbort(table, table),
                 conn |-> LoadConn(fault) ]
          [] fault.at = "insert" \/ (fault.at \in { "none", "commit" } /\ dup) ->
               [ ret   |-> RollbackAndReturn(IF fault.at = "insert" THEN fault ELSE NoFault),
                 table |-> TxAbort(table, w1),
                 conn |-> LoadConn(fault) ]
          [] fault.at = "commit" ->
               [ ret |-> RollbackAndReturn(fault), table |-> TxAbort(table, w2),
                 conn |-> LoadConn(fault) ]
          [] OTHER ->
               [ ret |-> "True", table |-> TxCommit(table, w2),
                 conn |-> LoadConn(fault) ]

\* mutant of load_products_upsert: a commit after every row
load_products_upsert_commit_each_row(products_arg, table, fault) ==
    LET n    == Len(products_arg)
        done == IF fault.at = "row" /\ fault.k \in 1 .. n THEN fault.k - 1 ELSE n
        w    == UpsertRows(table, SubSeq(products_arg, 1, done))
    IN  CASE fault.at \in { "connect", "cursor" } ->
               [ ret |-> "raise", table |-> table,
                 conn |-> LoadConn(fault) ]
          [] fault.at = "row" /\ fault.k \in 1 .. n ->
               [ ret |-> RollbackAndReturn(fault), table |-> w,
                 conn |-> LoadConn(fault) ]
          [] OTHER ->
               [ ret |-> "True", table |-> w,
                 conn |-> LoadConn(fault) ]

\* the loop of cursor.execute(upsert_query, ...) runs in one transaction,
\* committed after the last row; fault.at = "row" fails the statement of
\* row fault.k
load_products_upsert(products_arg, table, fault) ==
    LET n     == Len(products_arg)
        done  == IF fault.at = "row" /\ fault.k \in 1 .. n THEN fault.k - 1 ELSE n
        w     == UpsertRows(table, SubSeq(products_arg, 1, done))
    IN  CASE fault.at \in { "connect", "cursor" } ->
               [ ret |-> "raise", table |-> table,
                 conn |-> LoadConn(fault) ]
          [] fault.at = "row" /\ fault.k \in 1 .. n ->
               [ ret |-> RollbackAndReturn(fault), table |-> TxAbort(table, w),
                 conn |-> LoadConn(fault) ]
          [] fault.at = "commit" ->
               [ ret |-> RollbackAndReturn(fault), table |-> TxAbort(table, w),
                 conn |-> LoadConn(fault) ]
          [] OTHER ->
               [ ret |-> "True", table |-> TxCommit(table, w),
                 conn |-> LoadConn(fault) ]

\* raw_products has no key: the table is the sequence of its rows
load_raw_products(products_arg, table, fault) ==
    LET w1 == << >>
        w2 == w1 \o products_arg
    IN  CASE fault.at \in { "connect", "cursor" } ->
               [ ret |-> "raise", table |-> table,
                 conn |-> LoadConn(fault) ]
          [] fault.at = "truncate" ->
               [ ret |-> RollbackAndReturn(fault), table |-> TxAbort(table, table),
                 conn |-> LoadConn(fault) ]
          [] fault.at = "insert" ->
               [ ret |-> RollbackAndReturn(fault), table |-> TxAbort(table, w1),
                 conn |-> LoadConn(fault) ]
          [] fault.at = "commit" ->
               [ ret |-> RollbackAndReturn(fault), table |-> TxAbort(table, w2),
                 conn |-> LoadConn(fault) ]
          [] OTHER ->
               [ ret |-> "True", table |-> TxCommit(table, w2),
                 conn |-> LoadConn(fault) ]

\* ------------------------------------------------------------------------
\* scripts/fetch_exchange_rate.py
\* ------------------------------------------------------------------------
RateKey(r) == << r.date, r.base_currency, r.target_currency >>

\* mutant of UpsertRate: a plain INSERT into a table without the key
UpsertRate_plain_insert(rows, r) == rows \cup { r }

\* INSERT ... ON CONFLICT (date, base_currency, target_currency) DO UPDATE
UpsertRate(rows, r) == { x \in rows : RateKey(x) # RateKey(r) } \cup { r }

\* mutant of store_exchange_rate: the rows of other days are deleted
\* before the row of the day is written
store_exchange_rate_today_only(exchange_rate, table, day, now, base_currency, target_currency, fault) ==
    LET row == [ date            |-> day,
                 base_currency   |-> base_currency,
                 target_currency |-> target_currency,
                 exchange_rate   |-> exchange_rate,
                 fetched_at      |-> now ]
        w   == UpsertRate({ r \in table : r.date = day }, row)
    IN  CASE fault.at = "connect" ->
               [ ret |-> "False", table |-> table, conn |-> "none" ]
          [] fault.at \in { "cursor", "execute" } ->
               [ ret |-> "False", table |-> TxAbort(table, table), conn |-> "unreferenced" ]
          [] fault.at = "commit" ->
               [ ret |-> "False", table |-> TxAbort(table, w), conn |-> "unreferenced" ]
          [] OTHER ->
               [ ret |-> "True", table |-> TxCommit(table, w), conn |-> "closed" ]

\* every psycopg2.Error is caught and answered with False; no handler
\* touches the connection, and conn.close() is the last statement but one
\* of the try block.  day: date.today(); now: CURRENT_TIMESTAMP, which
\* the statement sets fetched_at to on a conflict (and, as the column's
\* default, on an insert)
store_exchange_rate(exchange_rate, table, day, now, base_currency, target_currency, fault) ==
    LET row == [ date            |-> day,
                 base_currency   |-> base_currency,
                 target_currency |-> target_currency,
                 exchange_rate   |-> exchange_rate,
                 fetched_at      |-> now ]
        w   == UpsertRate(table, row)
    IN  CASE fault.at = "connect" ->
               [ ret |-> "False", table |-> table, conn |-> "none" ]
          [] fault.at \in { "cursor", "execute" } ->
               [ ret |-> "False", table |-> TxAbort(table, table), conn |-> "unreferenced" ]
          [] fault.at = "commit" ->
               [ ret |-> "False", table |-> TxAbort(table, w), conn |-> "unreferenced" ]
          [] OTHER ->
               [ ret |-> "True", table |-> TxCommit(table, w), conn |-> "closed" ]

\* SELECT exchange_rate, date ... ORDER BY date DESC LIMIT 1: the rows the
\* query may answer with (any row of the greatest date)
\* mutant of LatestRows: ORDER BY date ASC
LatestRows_oldest(table) == { r \in table : \A x \in table : r.date <= x.date }

LatestRows(table) == { r \in table : \A x \in table : x.date <= r.date }

\* mutant of get_latest_exchange_rate: the query has no ORDER BY
get_latest_exchange_rate_unordered(table, fault) ==
    IF fault.at \in { "connect", "cursor", "execute" } \/ table = {}
    THEN { None }
    ELSE { Some(r.exchange_rate) : r \in table }

\* the values the call may return: None on any psycopg2.Error and on an
\* empty table, else the rate of a latest row
get_latest_exchange_rate(table, fault) ==
    IF fault.at \in { "connect", "cursor", "execute" } \/ table = {}
    THEN { None }
    ELSE { Some(r.exchange_rate) : r \in LatestRows(table) }

\* the connection get_latest_exchange_rate leaves: closed after
\* fetchone(), before the result is looked at; no handler closes it
get_latest_exchange_rate_conn(fault) ==
    CASE fault.at = "connect"                -> "none"
      [] fault.at \in { "cursor", "execute" } -> "unreferenced"
      [] OTHER                               -> "closed"

\* ------------------------------------------------------------------------
\* The collaborators and the bounded inputs
\* ------------------------------------------------------------------------
\* longest list the scraper returns
MaxBatch == 2

\* last calendar day of a behaviour (days are 1 .. MaxDay)
MaxDay == 2

RawA ==
    [ title        |-> << " ", "A", " ", " ", "b" >>,
      price_gbp    |-> [ kind |-> "float", val |-> 5177 ],
      category     |-> << "p", "o", "e", "t", "r", "y" >>,
      availability |-> << "I", "n", " ", "s", "t", "o", "c", "k", " ", "(", "2", " ",
                          "a", "v", "a", "i", "l", "a", "b", "l", "e", ")" >> ]

\* the same title, category and price as RawA once cleaned
RawB ==
    [ title        |-> << "A", " ", "b" >>,
      price_gbp    |-> [ kind |-> "float", val |-> 5177 ],
      category     |-> << "P", "O", "E", "T", "R", "Y" >>,
      availability |-> << >> ]

RawCheap ==
    [ title        |-> << "c" >>,
      price_gbp    |-> [ kind |-> "float", val |-> 1999 ],
      category     |-> << >>,
      availability |-> << "O", "u", "t", " ", "o", "f", " ", "s", "t", "o", "c", "k" >> ]

\* a record whose price is no number
RawBad ==
    [ title        |-> << "d" >>,
      price_gbp    |-> [ kind |-> "text", val |-> 0 ],
      category     |-> << "u", "n", "k", "n", "o", "w", "n" >>,
      availability |-> << >> ]

\* a record with a price below zero
RawNeg ==
    [ title        |-> << "n" >>,
      price_gbp    |-> [ kind |-> "float", val |-> -500 ],
      category     |-> << "p", "o", "e", "t", "r", "y" >>,
      availability |-> << >> ]

RawPool == { RawA, RawB, RawCheap, RawBad, RawNeg }

\* records that differ from one another in the title, the category, the
\* price or the availability, some with the "|" of the hashed string in
\* them
VariantPool ==
    { [ title        |-> t,
        price_gbp    |-> [ kind |-> "float", val |-> p ],
        category     |-> c,
        availability |-> a ] :
        t \in { << "a" >>, << "a", "|", "b" >> },
        c \in { << "c" >>, << "b", "|", "c" >> },
        p \in { 5177, 2000 },
        a \in { << >>, in_stock } }

\* the records the scraper finds in a run of the DAG: one that transforms
\* and one that does not (a list may hold the same record twice)
ScrapePool == { RawA, RawBad }

SeqsUpTo(S, n) == UNION { [ 1 .. m -> S ] : m \in 0 .. n }

\* what scrape_books may return: any list of raw records (the page fetches
\* and the extraction are the scraper's own; [] when nothing is found)
scrape_books == SeqsUpTo(ScrapePool, MaxBatch)

Rates == { 10550, 9900 }

\* what fetch_exchange_rate may return: a non-zero float, or None on any
\* error and on a missing or zero rate in the reply
fetch_exchange_rate == { None } \cup { Some(r) : r \in Rates }

LoadFaults ==
    { NoFault, Fault("connect", FALSE, 0), Fault("cursor", FALSE, 0) }
      \cup { Fault(at, lost, 0) : at \in { "truncate", "insert", "commit" }, lost \in BOOLEAN }

UpsertFaults(n) ==
    { NoFault, Fault("connect", FALSE, 0), Fault("cursor", FALSE, 0) }
      \cup { Fault("commit", lost, 0) : lost \in BOOLEAN }
      \cup { Fault("row", lost, k) : lost \in BOOLEAN, k \in 1 .. n }

StoreFaults ==
    { NoFault } \cup { Fault(at, FALSE, 0) : at \in { "connect", "cursor", "execute", "commit" } }

ReadFaults ==
    { NoFault } \cup { Fault(at, FALSE, 0) : at \in { "connect", "cursor", "execute" } }

\* ------------------------------------------------------------------------
\* dags/product_pricing_dag.py: the task callables.  Each gives res, the
\* end of the attempt ("success": the callable returned, "failed": it
\* raised), the table it writes and the value it pushes to XCom.
\* ------------------------------------------------------------------------
\* mutant of scrape_products_task: an empty scrape is loaded and pushed
\* like any other
scrape_products_task_accepting_empty(scraped, table, fault) ==
    LET l == load_raw_products(scraped, table, fault)
    IN  IF l.ret = "raise"
        THEN [ res |-> "failed", table |-> l.table, pushed |-> None, inner |-> l.ret ]
        ELSE [ res |-> "success", table |-> l.table, pushed |-> Some(scraped),
               inner |-> l.ret ]

scrape_products_task(scraped, table, fault) ==
    IF ~TruthySeq(scraped)
    THEN [ res |-> "failed", table |-> table, pushed |-> None, inner |-> "n/a" ]
    ELSE LET l == load_raw_products(scraped, table, fault)
         IN  IF l.ret = "raise"
             THEN [ res |-> "failed", table |-> l.table, pushed |-> None, inner |-> l.ret ]
             ELSE [ res |-> "success", table |-> l.table, pushed |-> Some(scraped),
                    inner |-> l.ret ]

\* mutant of fetch_and_store_exchange_rate_task: what store_exchange_rate
\* returns is not looked at
fetch_and_store_exchange_rate_task_ignoring_store(fetched, table, day, now, fault) ==
    IF ~TruthyNum(fetched)
    THEN [ res |-> "failed", table |-> table, pushed |-> None, inner |-> "n/a" ]
    ELSE LET s == store_exchange_rate(Val(fetched), table, day, now, "GBP", "INR", fault)
         IN  [ res |-> "success", table |-> s.table, pushed |-> fetched, inner |-> s.ret ]

fetch_and_store_exchange_rate_task(fetched, table, day, now, fault) ==
    IF ~TruthyNum(fetched)
    THEN [ res |-> "failed", table |-> table, pushed |-> None, inner |-> "n/a" ]
    ELSE LET s == store_exchange_rate(Val(fetched), table, day, now, "GBP", "INR", fault)
         IN  IF s.ret # "True"
             THEN [ res |-> "failed", table |-> s.table, pushed |-> None, inner |-> s.ret ]
             ELSE [ res |-> "success", table |-> s.table, pushed |-> fetched,
                    inner |-> s.ret ]

\* mutant of ResolveRate: XCom first
ResolveRate_xcom_first(store_rate, xcom_rate) ==
    IF TruthyNum(xcom_rate) THEN xcom_rate ELSE store_rate

\* lines 117-122: the staging table first, XCom when it gives nothing
ResolveRate(store_rate, xcom_rate) ==
    IF TruthyNum(store_rate) THEN store_rate ELSE xcom_rate

\* mutant of NoRateAvailable: the check is missing
NoRateAvailable_never(exchange_rate) == FALSE

\* line 124
NoRateAvailable(exchange_rate) == ~TruthyNum(exchange_rate)

\* mutant of EmptyResult: the check is missing
EmptyResult_never(transformed_products) == FALSE

\* line 130
EmptyResult(transformed_products) == ~TruthySeq(transformed_products)

\* raw_x: xcom_pull of raw_products; store_rate: what
\* get_latest_exchange_rate returned; xcom_rate: xcom_pull of exchange_rate
transform_products_task(raw_x, store_rate, xcom_rate) ==
    IF IsNone(raw_x) \/ ~TruthySeq(Val(raw_x))
    THEN [ res |-> "failed", why |-> "No raw products found in XCom",
           rate |-> None, pushed |-> None ]
    ELSE LET exchange_rate == ResolveRate(store_rate, xcom_rate)
             transformed   == transform_products(Val(raw_x), exchange_rate)
         IN  IF NoRateAvailable(exchange_rate)
             THEN [ res |-> "failed", why |-> "No exchange rate available",
                    rate |-> None, pushed |-> None ]
             ELSE IF EmptyResult(transformed)
             THEN [ res |-> "failed", why |-> "No products were transformed",
                    rate |-> exchange_rate, pushed |-> None ]
             ELSE [ res |-> "success", why |-> "",
                    rate |-> exchange_rate, pushed |-> Some(transformed) ]

\* mutant of load_products_task: the value load_products_replace returns
\* is not looked at
load_products_task_ignoring_result(transformed_x, table, fault) ==
    IF IsNone(transformed_x) \/ ~TruthySeq(Val(transformed_x))
    THEN [ res |-> "failed", table |-> table, inner |-> "n/a" ]
    ELSE LET l == load_products_replace(Val(transformed_x), table, fault)
         IN  [ res   |-> IF l.ret = "raise" THEN "failed" ELSE "success",
               table |-> l.table,
               inner |-> l.ret ]

load_products_task(transformed_x, table, fault) ==
    IF IsNone(transformed_x) \/ ~TruthySeq(Val(transformed_x))
    THEN [ res |-> "failed", table |-> table, inner |-> "n/a" ]
    ELSE LET l == load_products_replace(Val(transformed_x), table, fault)
         IN  [ res   |-> IF l.ret = "True" THEN "success" ELSE "failed",
               table |-> l.table,
               inner |-> l.ret ]

\* ------------------------------------------------------------------------
\* State
\* ------------------------------------------------------------------------
VARIABLES
    products,                \* table products: a set of rows, product_id the key
    raw_products,            \* table raw_products: the sequence of its rows
    staging_exchange_rates,  \* table staging_exchange_rates: a set of rows
    today,                   \* date.today()
    xcom,                    \* the XCom values of the current DAG run
    state,                   \* task instance state of each task of the run
    tries,                   \* attempts each task has made in the run
    run_start,               \* the tables as they were when the run started
    clock,                   \* ticks of the clock: one between any two calls that
                             \* read CURRENT_TIMESTAMP
    last                     \* the latest call: what ran, on what, with what result

vars ==
    << products, raw_products, staging_exchange_rates, today, xcom, state, tries,
       run_start, clock, last >>

db == << products, raw_products, staging_exchange_rates >>

orchestrator == << state, tries, run_start >>

\* CURRENT_TIMESTAMP: the day, and within it the order of the calls
Now == << today, clock >>

NoCall ==
    [ op     |-> "none",     \* the callable
      ret    |-> "n/a",      \* its end: "success" / "failed" for a task, the value
                             \* returned or "raise" for a function
      inner  |-> "n/a",      \* what the load or store function a task calls returned
      fault  |-> NoFault,    \* what the database did to a function called on its own
      raw    |-> << >>,      \* raw records given to the call
      batch  |-> << >>,      \* transformed records given to or made by the call
      rate   |-> None,       \* the rate fetched, stored or applied
      read   |-> None,       \* what get_latest_exchange_rate returned
      before |-> {},         \* products before the call
      key    |-> << >>,      \* (date, base, target) that store_exchange_rate wrote
      now    |-> << >>,      \* CURRENT_TIMESTAMP of the call
      rates_before |-> {},   \* staging_exchange_rates before the call
      prev   |-> << >>,      \* of a second call in a row: the first call
      price  |-> None,       \* the price given to derive_price_tier
      conn   |-> "n/a" ]     \* the connection a function called on its own made,
                             \* once the call has ended

\* ------------------------------------------------------------------------
\* dags/product_pricing_dag.py: the DAG and Airflow's scheduling of it
\* ------------------------------------------------------------------------
Tasks == { "scrape_products", "fetch_exchange_rate", "transform_products", "load_products" }

\* [scrape_task, exchange_rate_task] >> transform_task >> load_task
Upstream(t) ==
    CASE t = "transform_products" -> { "scrape_products", "fetch_exchange_rate" }
      [] t = "load_products"      -> { "transform_products" }
      [] OTHER                    -> {}

\* default_args['retries']
Retries == 3

\* mutant of MayRetry: one retry more
MayRetry_one_more(tries_made) == tries_made <= Retries + 1

\* a failed try is followed by another while the tries made do not exceed
\* `retries`
MayRetry(tries_made) == tries_made <= Retries

\* mutant of UpstreamDone: trigger rule one_success
UpstreamDone_one_success(t) ==
    Upstream(t) = {} \/ \E u \in Upstream(t) : state[u] = "success"

\* trigger rule all_success, Airflow's default
UpstreamDone(t) == \A u \in Upstream(t) : state[u] = "success"

Runnable(t) == state[t] \in { "none", "up_for_retry" } /\ UpstreamDone(t)

Finished(t) == state[t] \in { "success", "failed", "upstream_failed" }

\* the state of the DAG run: that of its leaf, once no task is unfinished
dag_run_state ==
    IF \E t \in Tasks : ~Finished(t) THEN "running"
    ELSE IF state["load_products"] = "success" THEN "success"
    ELSE "failed"

EmptyXCom == [ raw_products |-> None, exchange_rate |-> None, transformed_products |-> None ]

\* mutant of xcom_push: clearing the task's value clears those of the run
xcom_push_clearing_run(x, key, value) == [ EmptyXCom EXCEPT ![key] = value ]

\* ti.xcom_push(key=key, value=value) at the end of a try, after Airflow
\* has cleared the value of the task's earlier try
xcom_push(x, key, value) == [ x EXCEPT ![key] = value ]

\* the end of one try of task t
Finish(t, res) ==
    /\ tries' = [ tries EXCEPT ![t] = @ + 1 ]
    /\ state' = [ state EXCEPT ![t] =
                    IF res = "success" THEN "success"
                    ELSE IF MayRetry(tries[t] + 1) THEN "up_for_retry"
                    ELSE "failed" ]
    /\ UNCHANGED run_start

\* The tables before a run: those of a new database, or those an earlier
\* successful run has left the same day (it scraped earlier_raw and fetched
\* earlier_rate).
EmptyDb == [ products |-> {}, raw_products |-> << >>, staging_exchange_rates |-> {} ]

DbAfterRun(earlier_raw, earlier_rate, day) ==
    [ products |->
        load_products_replace(transform_products(earlier_raw, Some(earlier_rate)),
                              {}, NoFault).table,
      raw_products |-> load_raw_products(earlier_raw, << >>, NoFault).table,
      staging_exchange_rates |->
        store_exchange_rate(earlier_rate, {}, day, << day, 0 >>, "GBP", "INR",
                            NoFault).table ]

InitialDbs == { EmptyDb, DbAfterRun(<< RawCheap >>, 9900, 1) }

InitRun ==
    /\ today = 1
    /\ xcom = EmptyXCom
    /\ state = [ t \in Tasks |-> "none" ]
    /\ tries = [ t \in Tasks |-> 0 ]
    /\ clock = 1
    /\ last = NoCall

Init ==
    /\ \E d \in InitialDbs :
         /\ products = d.products
         /\ raw_products = d.raw_products
         /\ staging_exchange_rates = d.staging_exchange_rates
         /\ run_start = d
    /\ InitRun

\* one try of scrape_products; Airflow clears the task's XCom before a try
Scrape ==
    /\ Runnable("scrape_products")
    /\ \E scraped \in scrape_books, fault \in LoadFaults :
         LET o == scrape_products_task(scraped, raw_products, fault)
         IN  /\ raw_products' = o.table
             /\ xcom' = xcom_push(xcom, "raw_products", o.pushed)
             /\ Finish("scrape_products", o.res)
             /\ last' = [ NoCall EXCEPT !.op = "scrape_products_task", !.ret = o.res,
                                        !.inner = o.inner,
                                        !.raw = scraped, !.before = products ]
    /\ UNCHANGED << products, staging_exchange_rates, today, clock >>

FetchRate ==
    /\ Runnable("fetch_exchange_rate")
    /\ \E fetched \in fetch_exchange_rate, fault \in StoreFaults :
         LET o == fetch_and_store_exchange_rate_task(fetched, staging_exchange_rates,
                                                     today, Now, fault)
         IN  /\ staging_exchange_rates' = o.table
             /\ clock' = clock + 1
             /\ xcom' = xcom_push(xcom, "exchange_rate", o.pushed)
             /\ Finish("fetch_exchange_rate", o.res)
             /\ last' = [ NoCall EXCEPT !.op = "fetch_and_store_exchange_rate_task",
                                        !.ret = o.res, !.inner = o.inner,
                                        !.rate = fetched, !.before = products ]
    /\ UNCHANGED << products, raw_products, today >>

\* a try of transform_products on the XCom values raw_x and xcom_rate
TransformTry(raw_x, xcom_rate) ==
    \E fault \in ReadFaults :
      \E store_rate \in get_latest_exchange_rate(staging_exchange_rates, fault) :
         LET o == transform_products_task(raw_x, store_rate, xcom_rate)
         IN  /\ xcom' = [ raw_products         |-> raw_x,
                          exchange_rate        |-> xcom_rate,
                          transformed_products |-> o.pushed ]
             /\ last' = [ NoCall EXCEPT !.op = "transform_products_task", !.ret = o.res,
                                        !.read = store_rate, !.rate = o.rate,
                                        !.raw = IF IsNone(raw_x) THEN << >> ELSE Val(raw_x),
                                        !.batch = IF IsNone(o.pushed) THEN << >>
                                                  ELSE Val(o.pushed),
                                        !.before = products ]
             /\ UNCHANGED << db, today, clock >>

Transform ==
    /\ Runnable("transform_products")
    /\ TransformTry(xcom.raw_products, xcom.exchange_rate)
    /\ Finish("transform_products", last'.ret)

Load ==
    /\ Runnable("load_products")
    /\ \E fault \in LoadFaults :
         LET o == load_products_task(xcom.transformed_products, products, fault)
         IN  /\ products' = o.table
             /\ Finish("load_products", o.res)
             /\ last' = [ NoCall EXCEPT !.op = "load_products_task", !.ret = o.res,
                                        !.inner = o.inner,
                                        !.batch = IF IsNone(xcom.transformed_products)
                                                  THEN << >>
                                                  ELSE Val(xcom.transformed_products),
                                        !.before = products ]
    /\ UNCHANGED << raw_products, staging_exchange_rates, today, clock, xcom >>

\* the scheduler gives up a task one of whose upstream tasks has failed
MarkUpstreamFailed ==
    \E t \in Tasks :
      /\ state[t] = "none"
      /\ \E u \in Upstream(t) : state[u] \in { "failed", "upstream_failed" }
      /\ state' = [ state EXCEPT ![t] = "upstream_failed" ]
      /\ UNCHANGED << db, today, clock, xcom, tries, run_start, last >>

\* midnight
NextDay ==
    /\ today < MaxDay
    /\ today' = today + 1
    /\ UNCHANGED << db, clock, xcom, state, tries, run_start, last >>

Next ==
    \/ Scrape
    \/ FetchRate
    \/ Transform
    \/ Load
    \/ MarkUpstreamFailed
    \/ NextDay

Spec == Init /\ [][Next]_vars

\* ------------------------------------------------------------------------
\* A run after a run whose worker had a later local date: date.today() is
\* the date of the clock and time zone of whichever machine runs the task,
\* so the staging table may hold a row dated after the day of this run
\* ------------------------------------------------------------------------
InitSkew ==
    /\ LET d == DbAfterRun(<< RawCheap >>, 9900, MaxDay)
       IN  /\ products = d.products
           /\ raw_products = d.raw_products
           /\ staging_exchange_rates = d.staging_exchange_rates
           /\ run_start = d
    /\ InitRun

SpecSkew == InitSkew /\ [][Next]_vars

\* ------------------------------------------------------------------------
\* The loader's functions called on their own: one call, with any
\* transformed batch and any failure of the database, on a products table
\* that an earlier load has filled
\* ------------------------------------------------------------------------
TransformedBatches ==
    { transform_products(b, Some(r)) : b \in SeqsUpTo(RawPool, MaxBatch), r \in Rates }

InitLoad ==
    /\ \E b \in TransformedBatches :
         products = load_products_replace(b, {}, NoFault).table
    /\ raw_products = << >>
    /\ staging_exchange_rates = {}
    /\ run_start = [ products |-> products, raw_products |-> << >>,
                     staging_exchange_rates |-> {} ]
    /\ InitRun

CallLoadReplace ==
    /\ last.op = "none"
    /\ \E b \in TransformedBatches, fault \in LoadFaults :
         LET o == load_products_replace(b, products, fault)
         IN  /\ products' = o.table
             /\ \E c \in ConnAfterCall(o.conn) :
                  last' = [ NoCall EXCEPT !.op = "load_products_replace", !.ret = o.ret,
                                         !.fault = fault, !.batch = b,
                                         !.before = products, !.conn = c ]
    /\ UNCHANGED << raw_products, staging_exchange_rates, today, clock, xcom, orchestrator >>

CallLoadUpsert ==
    /\ last.op = "none"
    /\ \E b \in TransformedBatches :
         \E fault \in UpsertFaults(Len(b)) :
           LET o == load_products_upsert(b, products, fault)
           IN  /\ products' = o.table
               /\ \E c \in ConnAfterCall(o.conn) :
                    last' = [ NoCall EXCEPT !.op = "load_products_upsert", !.ret = o.ret,
                                           !.fault = fault, !.batch = b,
                                           !.before = products, !.conn = c ]
    /\ UNCHANGED << raw_products, staging_exchange_rates, today, clock, xcom, orchestrator >>

\* load_products_replace a second time, with the batch of the first
CallLoadReplaceAgain ==
    /\ last.op = "load_products_replace"
    /\ \E fault \in LoadFaults :
         LET o == load_products_replace(last.batch, products, fault)
         IN  /\ products' = o.table
             /\ \E c \in ConnAfterCall(o.conn) :
                  last' = [ NoCall EXCEPT !.op = "load_products_replace_again",
                                         !.ret = o.ret, !.fault = fault,
                                         !.batch = last.batch, !.before = products,
                                         !.conn = c,
                                         !.prev = [ ret    |-> last.ret,
                                                    fault  |-> last.fault,
                                                    before |-> last.before ] ]
    /\ UNCHANGED << raw_products, staging_exchange_rates, today, clock, xcom, orchestrator >>

NextLoad == CallLoadReplace \/ CallLoadUpsert \/ CallLoadReplaceAgain

SpecLoad == InitLoad /\ [][NextLoad]_vars

\* ------------------------------------------------------------------------
\* The transformer called on its own: one call of transform_products on
\* any raw batch and rate, or one try of the transform task outside a DAG
\* run (airflow tasks test), where XCom holds whatever the caller has put
\* there
\* ------------------------------------------------------------------------
RawBatches == SeqsUpTo(RawPool, MaxBatch)

VariantBatches == SeqsUpTo(VariantPool, MaxBatch)

CallTransformProducts ==
    /\ last.op = "none"
    /\ \E b \in RawBatches \cup VariantBatches, r \in fetch_exchange_rate :
         last' = [ NoCall EXCEPT !.op = "transform_products", !.ret = "returned",
                                 !.raw = b, !.rate = r,
                                 !.batch = transform_products(b, r),
                                 !.before = products ]
    /\ UNCHANGED << db, today, clock, xcom, orchestrator >>

CallTransformTask ==
    /\ last.op = "none"
    /\ \E raw_x \in { None } \cup { Some(b) : b \in RawBatches },
          xcom_rate \in fetch_exchange_rate :
         TransformTry(raw_x, xcom_rate)
    /\ UNCHANGED orchestrator

\* highest price, in pence, that derive_price_tier is called with
MaxPrice == 5100

CallDerivePriceTier ==
    /\ last.op = "none"
    /\ \E price_gbp \in 0 .. MaxPrice :
         last' = [ NoCall EXCEPT !.op = "derive_price_tier",
                                 !.ret = derive_price_tier(price_gbp),
                                 !.price = Some(price_gbp) ]
    /\ UNCHANGED << db, today, clock, xcom, orchestrator >>

\* raw categories: none, "unknown" in three spellings and other texts,
\* each also with whitespace before and after it, and whitespace alone
Categories ==
    { l \o c \o r :
        l \in { << >>, << " " >>, << "\t", " " >> },
        c \in { << >>, unknown, << "U", "n", "k", "n", "o", "w", "n" >>,
                << "U", "N", "K", "N", "O", "W", "N" >>,
                << "p", "o", "e", "t", "r", "y" >>,
                << "s", "c", "i", " ", " ", "f", "i" >> },
        r \in { << >>, << " " >>, << " ", "\n" >> } }

\* transform_product on a record of any of these categories
CallTransformProduct ==
    /\ last.op = "none"
    /\ \E c \in Categories, r \in fetch_exchange_rate :
         LET product == [ title        |-> << "t" >>,
                          price_gbp    |-> [ kind |-> "float", val |-> 2000 ],
                          category     |-> c,
                          availability |-> << >> ]
             t       == transform_product(product, r)
         IN  last' = [ NoCall EXCEPT !.op = "transform_product", !.ret = "returned",
                                     !.raw = << product >>, !.rate = r,
                                     !.batch = IF IsNone(t) THEN << >> ELSE << Val(t) >> ]
    /\ UNCHANGED << db, today, clock, xcom, orchestrator >>

NextTransform ==
    \/ CallTransformProducts
    \/ CallTransformTask
    \/ CallDerivePriceTier
    \/ CallTransformProduct

SpecTransform == Init /\ [][NextTransform]_vars

\* ------------------------------------------------------------------------
\* The staging store called on its own: up to MaxPuts calls of
\* store_exchange_rate, for any currency pair, on any day and with any
\* failure of the database, and calls of get_latest_exchange_rate between
\* them
\* ------------------------------------------------------------------------
\* most calls of store_exchange_rate in a behaviour
MaxPuts == 3

CurrencyPairs == { << "GBP", "INR" >>, << "USD", "INR" >> }

CallStoreExchangeRate ==
    /\ clock <= MaxPuts
    /\ \E exchange_rate \in Rates, pair \in CurrencyPairs, fault \in StoreFaults :
         LET o == store_exchange_rate(exchange_rate, staging_exchange_rates, today, Now,
                                      pair[1], pair[2], fault)
         IN  /\ staging_exchange_rates' = o.table
             /\ \E c \in ConnAfterCall(o.conn) :
                  last' = [ NoCall EXCEPT !.op = "store_exchange_rate", !.ret = o.ret,
                                         !.fault = fault, !.rate = Some(exchange_rate),
                                         !.key = << today, pair[1], pair[2] >>,
                                         !.now = Now, !.conn = c,
                                         !.rates_before = staging_exchange_rates ]
    /\ clock' = clock + 1
    /\ UNCHANGED << products, raw_products, today, xcom, orchestrator >>

CallGetLatestExchangeRate ==
    /\ \E fault \in ReadFaults :
         \E r \in get_latest_exchange_rate(staging_exchange_rates, fault),
            c \in ConnAfterCall(get_latest_exchange_rate_conn(fault)) :
           last' = [ NoCall EXCEPT !.op = "get_latest_exchange_rate",
                                   !.ret = "returned", !.fault = fault, !.read = r,
                                   !.conn = c,
                                   !.rates_before = staging_exchange_rates ]
    /\ UNCHANGED << db, today, clock, xcom, orchestrator >>

NextRate == CallStoreExchangeRate \/ CallGetLatestExchangeRate \/ NextDay

SpecRate == Init /\ [][NextRate]_vars

\* ------------------------------------------------------------------------
\* Properties of a DAG run (Spec)
\* ------------------------------------------------------------------------
Downstream(t) ==
    CASE t = "scrape_products"     -> { "transform_products", "load_products" }
      [] t = "fetch_exchange_rate" -> { "transform_products", "load_products" }
      [] t = "transform_products"  -> { "load_products" }
      [] OTHER                     -> {}

\* C1: Transform makes no try before Scrape and FetchRate have both
\* succeeded in the run, and Load makes none before Transform has succeeded.
C1_AndJoin ==
    /\ tries["transform_products"] > 0 =>
         /\ state["scrape_products"] = "success"
         /\ state["fetch_exchange_rate"] = "success"
    /\ tries["load_products"] > 0 => state["transform_products"] = "success"

\* Transform and Load have both run
C1_Witness ==
    /\ tries["transform_products"] > 0
    /\ tries["load_products"] > 0
    /\ state["scrape_products"] = "success"
    /\ state["fetch_exchange_rate"] = "success"

TaskOf(op) ==
    CASE op = "scrape_products_task"               -> "scrape_products"
      [] op = "fetch_and_store_exchange_rate_task" -> "fetch_exchange_rate"
      [] op = "transform_products_task"            -> "transform_products"
      [] op = "load_products_task"                 -> "load_products"

\* the try that `last` records met one of the node-level failures: an empty
\* scrape, no rate fetched, a failed write to the staging table, no raw
\* batch or no rate or an empty result in the transform, no batch or a
\* failed load in the load
NodeLevelFailure ==
    CASE last.op = "scrape_products_task" -> last.raw = << >>
      [] last.op = "fetch_and_store_exchange_rate_task" ->
           ~TruthyNum(last.rate) \/ last.inner = "False"
      [] last.op = "transform_products_task" ->
           \/ last.raw = << >>
           \/ ~TruthyNum(last.read) /\ ~TruthyNum(xcom.exchange_rate)
           \/ last.batch = << >>
      [] last.op = "load_products_task" ->
           last.batch = << >> \/ last.inner \in { "False", "raise" }
      [] OTHER -> FALSE

\* C2: a task that has failed all its tries fails the run, and no task
\* downstream of it makes a try; a try that meets a node-level failure ends
\* as failed, and a failed try never leaves its task in the state success.
C2_FailureHaltsAndSurfaces ==
    /\ \A t \in Tasks :
         state[t] = "failed" =>
           /\ dag_run_state \in { "running", "failed" }
           /\ \A d \in Downstream(t) :
                tries[d] = 0 /\ state[d] \in { "none", "upstream_failed" }
    /\ (\E t \in Tasks : state[t] = "failed") /\ (\A t \in Tasks : Finished(t))
         => dag_run_state = "failed"
    /\ NodeLevelFailure => last.ret = "failed"
    /\ last.ret = "failed" => state[TaskOf(last.op)] \in { "up_for_retry", "failed" }

\* the load has failed its last try on a load that returned False, and the
\* run has ended as failed
C2_Witness ==
    /\ last.op = "load_products_task"
    /\ last.inner = "False"
    /\ state["load_products"] = "failed"
    /\ dag_run_state = "failed"

\* C3 as claimed: no task makes more than 3 tries in a run.
C3_AtMostThreeTries == \A t \in Tasks : tries[t] <= 3

\* C3: no task makes more than retries + 1 = 4 tries in a run (the first
\* try and 3 retries); a task fails only on its 4th try, and is not tried
\* again after it.
C3_AtMostRetriesPlusOneTries ==
    \A t \in Tasks :
      /\ tries[t] <= Retries + 1
      /\ state[t] = "failed" => tries[t] = Retries + 1
      /\ tries[t] = Retries + 1 => state[t] \in { "success", "failed" }

\* a task has failed its 4th try
C3_Witness == \E t \in Tasks : tries[t] = Retries + 1 /\ state[t] = "failed"

\* C7 as claimed: a try of Scrape in which load_raw_products fails (it
\* returns False or it raises) still succeeds and hands the scraped batch on.
C7_RawSinkNeverFailsScrape ==
    ( /\ last.op = "scrape_products_task"
      /\ last.raw # << >>
      /\ last.inner \in { "False", "raise" } )
      => /\ last.ret = "success"
         /\ xcom.raw_products = Some(last.raw)

\* no record of the batch transforms, whatever the rate
NoneEnriches(raws) ==
    \A i \in DOMAIN raws : \A r \in fetch_exchange_rate :
      IsNone(transform_product(raws[i], r))

\* C9: when the raw batch of the run is not empty and none of its records
\* transforms, Transform does not succeed, no transformed batch is in XCom,
\* Load makes no try and the products table is as it was before the run.
C9_EmptyResultFailsTransform ==
    ( /\ ~IsNone(xcom.raw_products)
      /\ Val(xcom.raw_products) # << >>
      /\ NoneEnriches(Val(xcom.raw_products)) )
      => /\ state["transform_products"] # "success"
         /\ xcom.transformed_products = None
         /\ tries["load_products"] = 0
         /\ products = run_start.products

\* Transform has failed all its tries on such a batch, in a run on a
\* database an earlier run has filled
C9_Witness ==
    /\ ~IsNone(xcom.raw_products)
    /\ Val(xcom.raw_products) # << >>
    /\ NoneEnriches(Val(xcom.raw_products))
    /\ state["transform_products"] = "failed"
    /\ state["load_products"] = "upstream_failed"
    /\ products # {}

\* C20: a try of Scrape in which scrape_books returns [] fails and pushes
\* no raw batch; and as long as Scrape has not succeeded (so when every
\* try returned []) no raw batch is in XCom and neither Transform nor Load
\* makes a try.
C20_EmptyScrapeIsFatal ==
    /\ ( last.op = "scrape_products_task" /\ last.raw = << >> ) =>
         /\ last.ret = "failed"
         /\ last.inner = "n/a"
         /\ xcom.raw_products = None
         /\ state["scrape_products"] \in { "up_for_retry", "failed" }
    /\ state["scrape_products"] # "success" =>
         /\ xcom.raw_products = None
         /\ tries["transform_products"] = 0
         /\ tries["load_products"] = 0
         /\ products = run_start.products

\* Scrape has failed its last try on an empty scrape, FetchRate has
\* succeeded, and Transform and Load are given up without a try
C20_Witness ==
    /\ last.op = "scrape_products_task"
    /\ last.raw = << >>
    /\ state["scrape_products"] = "failed"
    /\ raw_products = run_start.raw_products
    /\ state["fetch_exchange_rate"] = "success"
    /\ tries["transform_products"] = 0
    /\ tries["load_products"] = 0

\* the staging table holds the rate x for the day and the pair GBP / INR
HoldsRate(table, day, x) ==
    \E r \in table :
      /\ RateKey(r) = << day, "GBP", "INR" >>
      /\ r.exchange_rate = x

\* C21: a try of FetchRate that succeeds has fetched a rate and
\* store_exchange_rate has returned True: the staging table then holds a row
\* of today and GBP / INR with the rate fetched, which is also the rate
\* pushed; a try in which no rate is fetched or the store returns False
\* fails, pushes nothing and leaves the table as it was.
C21_FetchSucceedsOnlyIfPersisted ==
    [][ tries'["fetch_exchange_rate"] # tries["fetch_exchange_rate"] =>
          /\ state'["fetch_exchange_rate"] = "success" =>
               /\ TruthyNum(last'.rate)
               /\ last'.inner = "True"
               /\ HoldsRate(staging_exchange_rates', today, Val(last'.rate))
               /\ xcom'.exchange_rate = last'.rate
          /\ ( ~TruthyNum(last'.rate) \/ last'.inner = "False" ) =>
               /\ state'["fetch_exchange_rate"] \in { "up_for_retry", "failed" }
               /\ xcom'.exchange_rate = None
               /\ staging_exchange_rates' = staging_exchange_rates ]_vars

\* FetchRate has succeeded on a day for which an earlier run had stored
\* another rate, and the row of the day has the rate fetched now
C21_Witness ==
    /\ last.op = "fetch_and_store_exchange_rate_task"
    /\ state["fetch_exchange_rate"] = "success"
    /\ TruthyNum(last.rate)
    /\ HoldsRate(staging_exchange_rates, today, Val(last.rate))
    /\ \E r \in run_start.staging_exchange_rates :
         r.date = today /\ r.exchange_rate # Val(last.rate)

\* the keys of the rows of a staging table
RateKeys(table) == { RateKey(r) : r \in table }

\* C27: no step of a run takes a key (date, base, target) out of the
\* staging table, whether the try it belongs to succeeds or fails; a step
\* adds at most the key of today and GBP / INR, and the table never holds
\* two rows of one key, so the tries and runs of one day leave one row for
\* the day.
C27_RateKeysOnlyGrow ==
    [][ /\ RateKeys(staging_exchange_rates) \subseteq RateKeys(staging_exchange_rates')
        /\ RateKeys(staging_exchange_rates') \ RateKeys(staging_exchange_rates)
              \subseteq { << today, "GBP", "INR" >> }
        /\ \A x, y \in staging_exchange_rates' : RateKey(x) = RateKey(y) => x = y
        /\ Cardinality({ x \in staging_exchange_rates' : x.date = today }) <= 1 ]_vars

\* FetchRate has succeeded on its second try or a later one, a day after
\* an earlier run: the row of the earlier run is there as it was, next to
\* the one row of today
C27_Witness ==
    /\ state["fetch_exchange_rate"] = "success"
    /\ tries["fetch_exchange_rate"] >= 2
    /\ today = 2
    /\ run_start.staging_exchange_rates # {}
    /\ run_start.staging_exchange_rates \subseteq staging_exchange_rates
    /\ RateKeys(staging_exchange_rates) =
         RateKeys(run_start.staging_exchange_rates) \cup { << 2, "GBP", "INR" >> }
    /\ Cardinality(staging_exchange_rates) = 2

\* C22: a try of Transform or of Load that fails leaves the raw_products
\* table, the staging table and the products table as they were, and so
\* does giving up a task whose upstream has failed: what Scrape and
\* FetchRate have committed stays, and the rate FetchRate stored is in the
\* staging table for the rest of the run.
C22_NoCrossNodeRollback ==
    [][ /\ ( /\ \/ tries'["transform_products"] # tries["transform_products"]
                 \/ tries'["load_products"] # tries["load_products"]
              /\ last'.ret = "failed" )
             => db' = db
        /\ tries' = tries /\ state' # state => db' = db
        /\ state'["fetch_exchange_rate"] = "success" =>
             \E r \in staging_exchange_rates' :
               /\ r.exchange_rate = Val(xcom'.exchange_rate)
               /\ r.date <= today' ]_vars

\* Load has failed its last try in a load that did not go through; the
\* products table holds the rows of the earlier run, raw_products the batch
\* scraped in this run and the staging table the rate fetched in this run
C22_Witness ==
    /\ last.op = "load_products_task"
    /\ last.inner \in { "False", "raise" }
    /\ state["load_products"] = "failed"
    /\ products = run_start.products
    /\ products # {}
    /\ raw_products = Val(xcom.raw_products)
    /\ raw_products # run_start.raw_products
    /\ staging_exchange_rates # run_start.staging_exchange_rates
    /\ state["fetch_exchange_rate"] = "success"

\* what Scrape writes and what it hands on
ScrapeSide ==
    << raw_products, xcom.raw_products, state["scrape_products"], tries["scrape_products"] >>

\* what FetchRate writes and what it hands on
FetchSide ==
    << staging_exchange_rates, xcom.exchange_rate, state["fetch_exchange_rate"],
       tries["fetch_exchange_rate"] >>

\* C19: a try of Scrape leaves the staging table, the rate in XCom and the
\* state of FetchRate as they are, and a try of FetchRate leaves the
\* raw_products table, the raw batch in XCom and the state of Scrape as
\* they are, so that in any interleaving of their tries each ends with what
\* its own tries make of what it started with; and Transform is handed the
\* two values as they were left.
C19_ScrapeFetchIndependent ==
    [][ /\ tries'["scrape_products"] # tries["scrape_products"] => FetchSide' = FetchSide
        /\ tries'["fetch_exchange_rate"] # tries["fetch_exchange_rate"]
             => ScrapeSide' = ScrapeSide
        /\ tries'["transform_products"] # tries["transform_products"]
             => /\ ScrapeSide' = ScrapeSide
                /\ FetchSide' = FetchSide
                /\ last'.raw = Val(xcom.raw_products) ]_vars

\* both have succeeded on their 2nd try, Scrape last, and what FetchRate
\* stored and pushed is there
C19_Witness ==
    /\ last.op = "scrape_products_task"
    /\ state["scrape_products"] = "success"
    /\ state["fetch_exchange_rate"] = "success"
    /\ tries["scrape_products"] = 2
    /\ tries["fetch_exchange_rate"] = 2
    /\ TruthyNum(xcom.exchange_rate)
    /\ \E r \in staging_exchange_rates :
         r.exchange_rate = Val(xcom.exchange_rate) /\ r.fetched_at[2] = 2

\* ------------------------------------------------------------------------
\* Properties of the transformer (SpecTransform)
\* ------------------------------------------------------------------------
\* some record of the batch transforms
SomeEnriches(raws) ==
    \E i \in DOMAIN raws : ~IsNone(transform_product(raws[i], Some(1)))

\* every record of the batch was converted at the rate x
ConvertedAt(batch, x) ==
    \A i \in DOMAIN batch :
      batch[i].price_inr = convert_price_to_inr(batch[i].price_gbp, x)

\* C4: in a try of the transform task on a raw batch, a rate that the
\* staging table gives is the rate applied, whatever XCom holds; when the
\* staging table gives none (empty or unreachable) and XCom holds a rate,
\* that one is applied, and the try succeeds when a record transforms.
C4_StoreFirstThenTransient ==
    ( last.op = "transform_products_task" /\ last.raw # << >> ) =>
      /\ TruthyNum(last.read) =>
           /\ last.rate = last.read
           /\ ConvertedAt(last.batch, last.read)
           /\ SomeEnriches(last.raw) => last.ret = "success"
      /\ ( ~TruthyNum(last.read) /\ TruthyNum(xcom.exchange_rate) ) =>
           /\ last.rate = xcom.exchange_rate
           /\ ConvertedAt(last.batch, xcom.exchange_rate)
           /\ SomeEnriches(last.raw) => last.ret = "success"

\* the staging table is empty, XCom holds 105.50, and the try has succeeded
\* at that rate: 51.77 GBP is 5461.74 INR
C4_Witness ==
    /\ last.op = "transform_products_task"
    /\ staging_exchange_rates = {}
    /\ last.read = None
    /\ xcom.exchange_rate = Some(10550)
    /\ last.ret = "success"
    /\ \E i \in DOMAIN last.batch :
         last.batch[i].price_gbp = 5177 /\ last.batch[i].price_inr = 546174

\* the records of raws that transform, each transformed, in the order of raws
EnrichedInOrder(raws, x) ==
    LET ok(r) == ~IsNone(transform_product(r, x))
        kept  == SelectSeq(raws, ok)
    IN  [ i \in DOMAIN kept |-> Val(transform_product(kept[i], x)) ]

\* C8: transform_products returns, for any raw batch, the transformed
\* records of those that transform, in input order, and nothing for the
\* others: a record that fails is left out and the batch goes on.
C8_BatchAbsorbsRecordFailures ==
    last.op = "transform_products" =>
      /\ last.batch = EnrichedInOrder(last.raw, last.rate)
      /\ Len(last.batch) =
           Cardinality({ i \in DOMAIN last.raw :
                           ~IsNone(transform_product(last.raw[i], last.rate)) })

\* two records, the first with a price that is no number: one record out,
\* the second
C8_Witness ==
    /\ last.op = "transform_products"
    /\ Len(last.raw) = 2
    /\ IsNone(transform_product(last.raw[1], last.rate))
    /\ Len(last.batch) = 1
    /\ last.batch[1] = Val(transform_product(last.raw[2], last.rate))

\* C15 as claimed: transform_products emits no record of a price below
\* zero: every record it returns has price_gbp >= 0 and price_inr >= 0, and
\* a raw record with a negative price does not transform.
C15_NoNegativePriceEmitted ==
    last.op = "transform_products" =>
      /\ \A i \in DOMAIN last.batch :
           last.batch[i].price_gbp >= 0 /\ last.batch[i].price_inr >= 0
      /\ \A i \in DOMAIN last.raw :
           ( last.raw[i].price_gbp.kind = "float" /\ last.raw[i].price_gbp.val < 0 )
             => IsNone(transform_product(last.raw[i], last.rate))

\* the title, the category and the price of a transformed record
IdValues(t) == << t.title, t.category, t.price_gbp >>

DiffersInOne(u, v) == Cardinality({ k \in 1 .. 3 : u[k] # v[k] }) = 1

\* C16: two records that transform_products emits with the same cleaned
\* title, normalized category and price have the same product_id, whatever
\* their availability; two that differ in exactly one of the three have
\* different product_ids; and a record gets the product_id it would get at
\* any other exchange rate, or at none.
C16_ProductIdFunctionOfThree ==
    last.op = "transform_products" =>
      /\ \A i, j \in DOMAIN last.batch :
           /\ IdValues(last.batch[i]) = IdValues(last.batch[j])
                => last.batch[i].product_id = last.batch[j].product_id
           /\ DiffersInOne(IdValues(last.batch[i]), IdValues(last.batch[j]))
                => last.batch[i].product_id # last.batch[j].product_id
      /\ \A r \in fetch_exchange_rate : \A i \in DOMAIN last.batch :
           EnrichedInOrder(last.raw, r)[i].product_id = last.batch[i].product_id

\* two records of one title, category and price and of different
\* availability, with the "|" of the hashed string in the title
C16_Witness ==
    /\ last.op = "transform_products"
    /\ Len(last.batch) = 2
    /\ IdValues(last.batch[1]) = IdValues(last.batch[2])
    /\ last.batch[1].availability_status # last.batch[2].availability_status
    /\ "|" \in Range(last.batch[1].title)
    /\ last.batch[1].product_id = last.batch[2].product_id
    /\ TruthyNum(last.rate)

\* C17: derive_price_tier gives cheap below 20.00, moderate from 20.00 to
\* below 50.00 and expensive from 50.00 on, for every price in whole pence.
C17_TierBoundaries ==
    last.op = "derive_price_tier" =>
      LET p == Val(last.price)
      IN  /\ p < 2000 => last.ret = "cheap"
          /\ ( 2000 <= p /\ p < 5000 ) => last.ret = "moderate"
          /\ p >= 5000 => last.ret = "expensive"

\* 50.00 is expensive
C17_Witness ==
    /\ last.op = "derive_price_tier"
    /\ last.price = Some(5000)
    /\ last.ret = "expensive"

\* C23 as claimed: the category of a transformed record is never empty; it
\* is "Uncategorized" when the raw category is empty, only whitespace, or
\* "unknown" in any letter case with or without whitespace around it, and
\* else the cleaned raw category in title case.
C23_CategoryNeverEmpty ==
    ( last.op = "transform_product" /\ last.batch # << >> ) =>
      LET c   == last.raw[1].category
          out == last.batch[1].category
      IN  /\ out # << >>
          /\ IF Strip(c) = << >> \/ Lower(Strip(c)) = unknown
             THEN out = Uncategorized
             ELSE out = Title(Strip(CollapseWs(c)))

\* the rows of the staging table written in this run
WrittenInRun == staging_exchange_rates \ run_start.staging_exchange_rates

\* C24 as claimed: the rate a try of the transform task applies is the rate
\* the fetch task of the same run obtained, whatever rows earlier runs
\* left in the staging table
C24_AppliesRateOfThisRun ==
    ( last.op = "transform_products_task" /\ ~IsNone(last.rate) ) =>
      last.rate = xcom.exchange_rate

\* C24: the rate a try of the transform task applies is the rate of a row
\* of the latest date in the staging table when the table can be read, and
\* the rate the fetch task of the same run obtained when it cannot.  The
\* two are the same when a row written in this run has the latest date;
\* when an earlier run left a row of a later date, it is that row's rate.
C24_AppliesLatestStoredRate ==
    ( last.op = "transform_products_task" /\ ~IsNone(last.rate) ) =>
      LET latest == LatestRows(staging_exchange_rates)
      IN  /\ IF TruthyNum(last.read)
             THEN /\ last.rate = last.read
                  /\ \E r \in latest : last.read = Some(r.exchange_rate)
             ELSE last.rate = xcom.exchange_rate
          /\ ( latest \cap WrittenInRun # {} ) => last.rate = xcom.exchange_rate
          /\ ( latest \cap WrittenInRun = {} /\ TruthyNum(last.read) ) =>
               \E r \in run_start.staging_exchange_rates :
                  /\ last.rate = Some(r.exchange_rate)
                  /\ \A w \in WrittenInRun : w.date < r.date

\* the fetch task stored 105.50 under day 1, an earlier run left 99.00
\* under a later day, and the transform task applied 99.00
C24_Witness ==
    /\ last.op = "transform_products_task"
    /\ last.ret = "success"
    /\ xcom.exchange_rate = Some(10550)
    /\ last.read = Some(9900)
    /\ last.rate = Some(9900)
    /\ \E w \in WrittenInRun : w.exchange_rate = 10550

\* C25: when the run has ended in success, the products table holds the
\* records of the list the transform task pushed in this run, one row for
\* each record and with the record's values, and no other row; the list is
\* what transform_products makes of the raw records of this run.
C25_SuccessLeavesExactlyTheBatch ==
    dag_run_state = "success" =>
      /\ ~IsNone(xcom.transformed_products)
      /\ LET batch == Val(xcom.transformed_products)
         IN  /\ products = Range(batch)
             /\ Cardinality(products) = Len(batch)
             /\ \A r \in run_start.products : r \in products => r \in Range(batch)
             /\ \E rate \in Rates :
                  batch = transform_products(Val(xcom.raw_products), Some(rate))

\* a successful run on a database an earlier run had filled: the earlier
\* rows are gone and the rows of this run's batch are there
C25_Witness ==
    /\ dag_run_state = "success"
    /\ last.op = "load_products_task"
    /\ run_start.products # {}
    /\ products \cap run_start.products = {}
    /\ products = Range(Val(xcom.transformed_products))
    /\ products # {}

\* C10: a try of the transform task that gets a rate neither from the
\* staging table nor from XCom fails, and leaves no transformed batch in
\* XCom: no record is transformed.
C10_NoRateFailsWholeBatch ==
    ( /\ last.op = "transform_products_task"
      /\ ~TruthyNum(last.read)
      /\ ~TruthyNum(xcom.exchange_rate) )
      => /\ last.ret = "failed"
         /\ last.batch = << >>
         /\ xcom.transformed_products = None

\* such a try on a batch with a record that would transform
C10_Witness ==
    /\ last.op = "transform_products_task"
    /\ last.read = None
    /\ xcom.exchange_rate = None
    /\ SomeEnriches(last.raw)
    /\ last.ret = "failed"

\* ------------------------------------------------------------------------
\* Properties of the loader (SpecLoad)
\* ------------------------------------------------------------------------
\* C5: after load_products_replace has returned True the products table
\* holds the records of the batch and nothing else, one row each; after any
\* other end of the call (False or an exception, wherever the failure was)
\* it holds the rows it held before the call.
C5_ReplaceAtomic ==
    last.op = "load_products_replace" =>
      /\ last.ret = "True" =>
           /\ products = Range(last.batch)
           /\ Cardinality(products) = Len(last.batch)
      /\ last.ret # "True" => products = last.before

\* the INSERT has failed after the TRUNCATE in the same call, on a table
\* that held rows, and the rows are there
C5_Witness ==
    /\ last.op = "load_products_replace"
    /\ last.fault.at = "insert"
    /\ last.ret # "True"
    /\ last.before # {}
    /\ products = last.before

\* the rows of the batch before the one whose statement failed
RowsBeforeFailure == SubSeq(last.batch, 1, last.fault.k - 1)

LastWithIdOf(batch, i) ==
    LET same == { j \in DOMAIN batch : batch[j].product_id = batch[i].product_id }
    IN  batch[CHOOSE j \in same : \A n \in same : n <= j]

BatchIds(batch) == { batch[i].product_id : i \in DOMAIN batch }

\* C14: after load_products_upsert has returned True the products table
\* holds, for every product_id of the batch, one row, which is the last
\* record of the batch with that product_id, and the rows of every other
\* product_id as they were before the call.
C14_UpsertLastWinsFrame ==
    ( last.op = "load_products_upsert" /\ last.ret = "True" ) =>
      /\ \A i \in DOMAIN last.batch :
           { r \in products : r.product_id = last.batch[i].product_id }
             = { LastWithIdOf(last.batch, i) }
      /\ { r \in products : r.product_id \notin BatchIds(last.batch) }
           = { r \in last.before : r.product_id \notin BatchIds(last.batch) }

\* a batch of two different records of one product_id, on a table that
\* held a third row of that product_id and a row of another
C14_Witness ==
    /\ last.op = "load_products_upsert"
    /\ last.ret = "True"
    /\ Len(last.batch) = 2
    /\ last.batch[1].product_id = last.batch[2].product_id
    /\ last.batch[1] # last.batch[2]
    /\ \E r \in last.before :
         /\ r.product_id = last.batch[2].product_id
         /\ r \notin Range(last.batch)
    /\ \E r \in last.before : r.product_id # last.batch[2].product_id
    /\ last.batch[2] \in products
    /\ last.batch[1] \notin products

\* C13: when load_products_replace is called twice in a row with the same
\* batch, and the first call returned True or the database failed neither
\* call, the products table after the second call has the rows it had after
\* the first; a second call that the database does not fail returns True
\* when the first did.
C13_ReplaceIdempotent ==
    last.op = "load_products_replace_again" =>
      /\ ( last.prev.ret = "True" \/ ( last.prev.fault = NoFault /\ last.fault = NoFault ) )
           => products = last.before
      /\ ( last.prev.ret = "True" /\ last.fault = NoFault ) => last.ret = "True"

\* both calls have returned True, on a batch of two records and a table
\* that held other rows before the first call
C13_Witness ==
    /\ last.op = "load_products_replace_again"
    /\ last.prev.ret = "True"
    /\ last.ret = "True"
    /\ Len(last.batch) = 2
    /\ last.prev.before # {}
    /\ last.prev.before # products
    /\ products = Range(last.batch)

\* C26 as claimed: the records of a list transform_products returns have
\* product_ids that differ from one another, and load_products_replace,
\* called on such a list with the database working, returns True.
C26_DistinctIdsSoReplaceSucceeds ==
    last.op = "load_products_replace" =>
      /\ ~HasDuplicateKey(last.batch)
      /\ last.fault = NoFault => last.ret = "True"

\* ------------------------------------------------------------------------
\* Properties of the staging store (SpecRate)
\* ------------------------------------------------------------------------
\* C11: the staging table never holds two rows of one (date, base, target);
\* a store_exchange_rate that returns True leaves one row of its key, with
\* the rate given and fetched_at the time of the call, whether or not the
\* key was there before, and every row of another key as it was.
C11_OneRowPerKeyPutOverwrites ==
    /\ \A x, y \in staging_exchange_rates : RateKey(x) = RateKey(y) => x = y
    /\ ( last.op = "store_exchange_rate" /\ last.ret = "True" ) =>
         /\ \E x \in staging_exchange_rates :
              /\ RateKey(x) = last.key
              /\ x.exchange_rate = Val(last.rate)
              /\ x.fetched_at = last.now
         /\ { x \in staging_exchange_rates : RateKey(x) # last.key }
              = { x \in last.rates_before : RateKey(x) # last.key }

\* a store on a key that was there with another rate and an earlier
\* fetched_at, next to a row of another key
C11_Witness ==
    /\ last.op = "store_exchange_rate"
    /\ last.ret = "True"
    /\ \E x \in last.rates_before :
         /\ RateKey(x) = last.key
         /\ x.exchange_rate # Val(last.rate)
         /\ x.fetched_at # last.now
    /\ \E x \in last.rates_before : RateKey(x) # last.key

\* a row of the greatest date of the table has the rate given
IsLatestRate(table, rate) ==
    \E x \in table :
      /\ \A y \in table : y.date <= x.date
      /\ x.exchange_rate = rate

\* C12 as claimed: get_latest_exchange_rate returns no rate exactly when the
\* staging table is empty, and else the rate of a row of the greatest date.
C12_NoRateOnlyWhenEmpty ==
    last.op = "get_latest_exchange_rate" =>
      /\ last.read = None <=> last.rates_before = {}
      /\ last.read # None => IsLatestRate(last.rates_before, Val(last.read))

\* C12: get_latest_exchange_rate returns no rate exactly when the staging
\* table is empty or the connection or the query fails, and else the rate
\* of a row of the greatest date; it changes no table.
C12_LatestUnlessEmptyOrUnreadable ==
    last.op = "get_latest_exchange_rate" =>
      /\ last.read = None <=> ( last.rates_before = {} \/ last.fault.at # "none" )
      /\ last.read # None => IsLatestRate(last.rates_before, Val(last.read))
      /\ staging_exchange_rates = last.rates_before

\* the table holds rows of two days with different rates, and the call has
\* returned the rate of the later day
C12_Witness ==
    /\ last.op = "get_latest_exchange_rate"
    /\ last.read # None
    /\ \E x, y \in last.rates_before :
         /\ x.date < y.date
         /\ x.exchange_rate # y.exchange_rate
         /\ y.exchange_rate = Val(last.read)

\* ------------------------------------------------------------------------
\* Properties of every function that connects (SpecLoad, SpecRate)
\* ------------------------------------------------------------------------
DatabaseCalls ==
    { "load_products_replace", "load_products_replace_again", "load_products_upsert",
      "load_raw_products", "store_exchange_rate", "get_latest_exchange_rate" }

\* C18 as claimed: when a call of a load function or of a function of the
\* staging store has ended, however it ended, the connection it made is
\* not open (and so no transaction of it is).
C18_ConnectionReleased ==
    last.op \in DatabaseCalls => last.conn # "open"

====
